---- MODULE Spec2Model ----
(***************************************************************************)
(* A model of scribdl/content/audiobook.py: the Track, Playlist and        *)
(* ScribdAudioBook classes.                                                *)
(*                                                                         *)
(* Representation of Python values:                                        *)
(*  - a str is a sequence of fragments; every character the code inspects  *)
(*    ('/', '-', ' ', '_' and the digits) is a fragment of its own, and a  *)
(*    longer fragment contains none of them;                               *)
(*  - a reference that may be None is a sequence of length at most one:    *)
(*    None is <<>> and the object v is <<v>>;                              *)
(*  - a dict is a function from its keys; a list is a sequence;            *)
(*  - a call takes a world [self, net, ran]: the session, the requests     *)
(*    issued so far and the counts of the local computations run so far,   *)
(*    and ans, the answers the network may give to each kind of request.   *)
(*    It yields the set of its possible results, one per answer: the       *)
(*    world after it with err, the exception raised ("ok" for none), and   *)
(*    val, the value returned.  An exception skips the rest of every       *)
(*    calling handler but keeps the assignments made before it.            *)
(***************************************************************************)
EXTENDS Integers, Sequences, FiniteSets, TLC

VARIABLES self, net, ran, outcome, dl, events

vars == <<self, net, ran, outcome, dl, events>>

(***************************************************************************)
(* Bounds of the model.                                                    *)
(***************************************************************************)
\* a session handler is entered only with fewer effects (requests issued,
\* title derivations, Playlist constructions) than this behind it
MaxEffects == 4

\* the length of the playlist array the server answers a session under Spec
MaxEntries == 1

\* the length of the playlist array behind a playlist that is downloaded
MaxTracks == 3

\* the number of download() calls on one playlist
MaxDownloadCalls == 2

(***************************************************************************)
(* Python values.                                                          *)
(***************************************************************************)
None == <<>>

Some(v) == <<v>>

\* bool(x) of a str-or-None reference: None and "" are falsy
TruthyStr(o) == o # None /\ o[1] # <<>>

\* bool(x) of an object reference without __bool__/__len__ (Playlist), or of
\* the non-empty dict _scrape_audiobook returns
TruthyObj(o) == o # None

\* "{}".format(x) of a str-or-None reference
Str(o) == IF o = None THEN <<"None">> ELSE o[1]

Digits == {"0", "1", "2", "3", "4", "5", "6", "7", "8", "9"}

\* the number of consecutive digits of s from position i on, at most hi
DigitRun(s, i, hi) ==
    LET ns == {n \in 0..hi : i + n - 1 <= Len(s) /\ \A j \in i..(i + n - 1) : s[j] \in Digits}
    IN CHOOSE n \in ns : \A m \in ns : m <= n

\* re.search("[0-9]{lo,hi}", s): the leftmost match, greedy; None on no match
re_search(lo, hi, s) ==
    LET starts == {i \in 1..Len(s) : DigitRun(s, i, hi) >= lo}
    IN IF starts = {} THEN None
       ELSE LET i == CHOOSE a \in starts : \A b \in starts : a <= b
            IN Some(SubSeq(s, i, i + DigitRun(s, i, hi) - 1))

\* s.split(sep): the segments between the separators, empty ones included
RECURSIVE split(_, _)
split(s, sep) ==
    LET at == {i \in 1..Len(s) : s[i] = sep}
    IN IF at = {} THEN <<s>>
       ELSE LET i == CHOOSE a \in at : \A b \in at : a <= b
            IN <<SubSeq(s, 1, i - 1)>> \o split(SubSeq(s, i + 1, Len(s)), sep)

\* list.remove(x): the list without the first occurrence of x (ValueError when absent)
list_remove(l, x) ==
    LET at == {i \in 1..Len(l) : l[i] = x}
    IN IF at = {} THEN [err |-> "ValueError", val |-> l]
       ELSE LET i == CHOOSE a \in at : \A b \in at : a <= b
            IN [err |-> "ok", val |-> SubSeq(l, 1, i - 1) \o SubSeq(l, i + 1, Len(l))]

\* s.replace(a, b) for single-character a and b
replace(s, a, b) == [i \in 1..Len(s) |-> IF s[i] = a THEN b ELSE s[i]]

(***************************************************************************)
(* Calls.                                                                  *)
(***************************************************************************)
Ret(w, v) == [self |-> w.self, net |-> w.net, ran |-> w.ran, err |-> "ok", val |-> v]

Raise(w, e) == [self |-> w.self, net |-> w.net, ran |-> w.ran, err |-> e, val |-> None]

\* self.<f> = v
Assign(w, f, v) == [w EXCEPT !.self[f] = v]

\* the statements k after the calls S: skipped by an exception of S
Then(S, k(_)) == UNION {IF r.err # "ok" THEN {r} ELSE k(r) : r \in S}

\* json.loads(text): a text is [ok, value], the value it parses to when ok
json_loads(w, text) ==
    IF text.ok THEN {Ret(w, text.value)} ELSE {Raise(w, "JSONDecodeError")}

\* requests rejects a URL without "scheme://" before anything is sent
HasScheme(url) ==
    Len(url) >= 3 /\ url[1] \in {"http:", "https:"} /\ url[2] = "/" /\ url[3] = "/"

\* requests.get(url, ...) / requests.post(url, ..., data): the request is
\* recorded in net; answers are what the network may answer, each [err, text]
requests_send(w, method, kind, url, data, answers) ==
    IF ~HasScheme(url) THEN {Raise(w, "MissingSchema")}
    ELSE LET sent == [w EXCEPT !.net = Append(@, [method |-> method, kind |-> kind,
                                                   url |-> url, data |-> data])]
         IN {IF a.err # "ok" THEN Raise(sent, a.err) ELSE Ret(sent, a.text) : a \in answers}

(***************************************************************************)
(* Inputs: the content URLs a caller passes and what the network answers.  *)
(***************************************************************************)
Nine == <<"1", "2", "3", "4", "5", "6", "7", "8", "9">>

Eight == <<"1", "2", "3", "4", "5", "6", "7", "8">>

Slug == <<"My", "-", "Great", "-", "Book">>

\* "https://x.com/123456789/My-Great-Book/"
UrlSlash == <<"https:", "/", "/", "x.com", "/">> \o Nine \o <<"/">> \o Slug \o <<"/">>

\* "https://x.com/123456789/My-Great-Book"
UrlPlain == <<"https:", "/", "/", "x.com", "/">> \o Nine \o <<"/">> \o Slug

\* "x.com/123456789/My-Great-Book"
UrlNoScheme == <<"x.com", "/">> \o Nine \o <<"/">> \o Slug

\* "x.com/123456789/My-Great-Book/"
UrlNoSchemeSlash == <<"x.com", "/">> \o Nine \o <<"/">> \o Slug \o <<"/">>

\* "https://x.com/12345678/My-Great-Book"
UrlNoId == <<"https:", "/", "/", "x.com", "/">> \o Eight \o <<"/">> \o Slug

\* "x.com/12345678/a123456789/My-Great-Book"
UrlLateId == <<"x.com", "/">> \o Eight \o <<"/", "a">> \o Nine \o <<"/">> \o Slug

ContentURLs == {UrlSlash, UrlPlain, UrlNoScheme, UrlNoSchemeSlash, UrlNoId, UrlLateId}

NetFail == [err |-> "ConnectionError", text |-> None]

Answer(text) == [err |-> "ok", text |-> text]

BadJson == [ok |-> FALSE, value |-> None]

Json(v) == [ok |-> TRUE, value |-> v]

ErrorDict == [message |-> <<"not found">>]

\* "https://cdn.x/1234567/sample": its first 5-6 digit run is 123456
SampleUrl == <<"https:", "/", "/", "cdn.x", "/", "1", "2", "3", "4", "5", "6", "7", "/", "sample">>

\* "https://cdn.x/1234/sample"
SampleUrlNoId == <<"https:", "/", "/", "cdn.x", "/", "1", "2", "3", "4", "/", "sample">>

JsPremium == <<"var u=">> \o <<"8", "7", "6", "5", "4", "3", "2", "1">> \o <<";">>

JsFree == <<"var u=">> \o <<"8", "7", "6">> \o <<";">>

GoodDiv == Some(Json([audiobook_sample_url |-> SampleUrl]))

Pages ==
    { [div |-> None, scripts |-> <<JsPremium>>],
      [div |-> Some(BadJson), scripts |-> <<JsPremium>>],
      [div |-> Some(Json(ErrorDict)), scripts |-> <<JsPremium>>],
      [div |-> Some(Json([audiobook_sample_url |-> SampleUrlNoId])), scripts |-> <<JsPremium>>],
      [div |-> GoodDiv, scripts |-> <<>>],
      [div |-> GoodDiv, scripts |-> <<JsPremium, JsFree>>],
      [div |-> GoodDiv, scripts |-> <<JsFree, JsPremium>>] }

PageAnswers == {NetFail} \cup {Answer(p) : p \in Pages}

AuthAnswers == {NetFail, Answer(None)}

LicenseA == <<"lic", "-", "A">>

LicenseB == <<"lic", "-", "B">>

LicenseTexts ==
    { BadJson,
      Json(ErrorDict),
      Json([licenses |-> <<>>]),
      Json([licenses |-> <<ErrorDict>>]),
      Json([licenses |-> <<[id |-> <<>>]>>]),
      Json([licenses |-> <<[id |-> LicenseB], [id |-> LicenseA]>>]) }

LicenseAnswers == {NetFail} \cup {Answer(t) : t \in LicenseTexts}

TrackDicts ==
    { [url |-> <<"https:", "/", "/", "cdn.x", "/", "a">>, part_number |-> <<"1">>, chapter_number |-> <<"1">>],
      [url |-> <<"https:", "/", "/", "cdn.x", "/", "b">>, part_number |-> <<"2">>, chapter_number |-> <<"1">>],
      [url |-> <<"https:", "/", "/", "cdn.x", "/", "c">>, part_number |-> <<"1">>, chapter_number |-> <<"2">>] }

\* an entry without "chapter_number"
BadTrackDict == [url |-> <<"https:", "/", "/", "cdn.x", "/", "d">>, part_number |-> <<"3">>]

\* the playlist arrays of at most n entries
ServerPlaylists(n) == UNION {[1..k -> TrackDicts] : k \in 0..n}

PlaylistDict(l) == [playlist |-> l, expires |-> Some(<<"soon">>), playlist_token |-> Some(<<"tok">>)]

PlaylistTexts(n) ==
    {BadJson, Json(ErrorDict), Json(PlaylistDict(<<BadTrackDict>>))}
    \cup {Json(PlaylistDict(l)) : l \in ServerPlaylists(n)}

PlaylistAnswers(n) == {NetFail} \cup {Answer(t) : t \in PlaylistTexts(n)}

\* what the network may answer to each kind of request
Network == [page |-> PageAnswers, auth |-> AuthAnswers, lic |-> LicenseAnswers,
            post |-> PlaylistAnswers(MaxEntries)]

\* the same with the longer playlists that are downloaded
DownloadNetwork == [Network EXCEPT !.post = PlaylistAnswers(MaxTracks)]

(***************************************************************************)
(* ScribdAudioBook                                                         *)
(***************************************************************************)
IdLen == 9

BookIdMin == 5

BookIdMax == 6

AuthorIdLen == 8

session_key_header == <<"Session-Key", "acea0b1d-62b9-4fb7-960b-06d9fbb4999d">>

premium_cookies_const == "const.premium_cookies"

\* ScribdAudioBook(audiobook_url): the new session, or the exception
init(audiobook_url) ==
    LET scribd_id_search == re_search(IdLen, IdLen, audiobook_url)
    IN IF scribd_id_search = None
       THEN [err |-> "AttributeError", val |-> None]
       ELSE [err |-> "ok",
             val |-> Some([_audiobook_keys |-> None,
                           _preview_url |-> None,
                           _book_id |-> None,
                           _author_id |-> None,
                           _license_url |-> None,
                           _license_id |-> None,
                           _playlist_url |-> None,
                           _authenticate_url |-> None,
                           _title |-> None,
                           _playlist |-> None,
                           audiobook_url |-> audiobook_url,
                           scribd_id |-> scribd_id_search[1],
                           session_key_header |-> session_key_header,
                           cookies |-> premium_cookies_const])]

\* _scrape_audiobook: the text of the response is the page as BeautifulSoup
\* sees it, [div, scripts]: the data-push_state attribute of the book_preview
\* div (None without such a div) and the text of each text/javascript script
scrape_audiobook(w, ans) ==
    Then(requests_send(w, "GET", "page", w.self.audiobook_url, None, ans.page), LAMBDA response :
    LET soup == response.val
        div_tag == soup.div
    IN IF div_tag = None THEN {Raise(response, "TypeError")} ELSE
    Then(json_loads(response, div_tag[1]), LAMBDA text :
    IF "audiobook_sample_url" \notin DOMAIN text.val THEN {Raise(text, "KeyError")} ELSE
    LET preview_url == text.val["audiobook_sample_url"]
        book_id_search == re_search(BookIdMin, BookIdMax, preview_url)
    IN IF book_id_search = None THEN {Raise(text, "AttributeError")} ELSE
       IF Len(soup.scripts) = 0 THEN {Raise(text, "IndexError")} ELSE
       LET js_code == soup.scripts[Len(soup.scripts)]
           author_id_search == re_search(AuthorIdLen, AuthorIdLen, js_code)
       IN {Ret(text, [preview_url |-> Some(preview_url),
                      book_id |-> book_id_search,
                      author_id |-> author_id_search])}))

\* a scrape on every access: the result is never kept
audiobook_keys_uncached(w, ans) ==
    Then(scrape_audiobook(w, ans), LAMBDA r :
    {Ret(Assign(r, "_audiobook_keys", Some(r.val)), r.val)})

audiobook_keys(w, ans) ==
    IF TruthyObj(w.self._audiobook_keys) THEN {Ret(w, w.self._audiobook_keys[1])}
    ELSE Then(scrape_audiobook(w, ans), LAMBDA r :
         {Ret(Assign(r, "_audiobook_keys", Some(r.val)), r.val)})

preview_url(w, ans) ==
    IF TruthyStr(w.self._preview_url) THEN {Ret(w, w.self._preview_url)}
    ELSE Then(audiobook_keys(w, ans), LAMBDA audiobook :
         {Ret(Assign(audiobook, "_preview_url", audiobook.val.preview_url),
              audiobook.val.preview_url)})

book_id(w, ans) ==
    IF TruthyStr(w.self._book_id) THEN {Ret(w, w.self._book_id)}
    ELSE Then(audiobook_keys(w, ans), LAMBDA audiobook :
         {Ret(Assign(audiobook, "_book_id", audiobook.val.book_id),
              audiobook.val.book_id)})

author_id(w, ans) ==
    IF TruthyStr(w.self._author_id) THEN {Ret(w, w.self._author_id)}
    ELSE Then(audiobook_keys(w, ans), LAMBDA audiobook :
         {Ret(Assign(audiobook, "_author_id", audiobook.val.author_id),
              audiobook.val.author_id)})

LicenseUrlHead ==
    <<"https:", "/", "/", "api.findawayworld.com", "/", "v", "4", "/", "accounts", "/", "scribd", "-">>

license_url(w, ans) ==
    IF TruthyStr(w.self._license_url) THEN {Ret(w, w.self._license_url)}
    ELSE Then(author_id(w, ans), LAMBDA a :
         Then(book_id(a, ans), LAMBDA b :
         LET url == Some(LicenseUrlHead \o Str(a.val) \o <<"/", "audiobooks", "/">> \o Str(b.val))
         IN {Ret(Assign(b, "_license_url", url), url)}))

AuthenticateUrlHead == <<"https:", "/", "/", "www.scribd.com", "/", "listen", "/">>

authenticate_url(w) ==
    IF TruthyStr(w.self._authenticate_url) THEN {Ret(w, w.self._authenticate_url)}
    ELSE LET url == Some(AuthenticateUrlHead \o w.self.scribd_id)
         IN {Ret(Assign(w, "_authenticate_url", url), url)}

\* a reading that takes a missing or empty "licenses" for an empty id
read_license_id_lenient(response) ==
    Then(json_loads(response, response.val), LAMBDA response_dict :
    LET found == /\ "licenses" \in DOMAIN response_dict.val
                 /\ Len(response_dict.val["licenses"]) > 0
                 /\ "id" \in DOMAIN response_dict.val["licenses"][1]
        id == Some(IF found THEN response_dict.val["licenses"][1]["id"] ELSE <<>>)
    IN {Ret(Assign(response_dict, "_license_id", id), id)})

\* self._license_id = json.loads(response.text)["licenses"][0]["id"]
read_license_id(response) ==
    Then(json_loads(response, response.val), LAMBDA response_dict :
    IF "licenses" \notin DOMAIN response_dict.val THEN {Raise(response_dict, "KeyError")} ELSE
    IF Len(response_dict.val["licenses"]) = 0 THEN {Raise(response_dict, "IndexError")} ELSE
    IF "id" \notin DOMAIN response_dict.val["licenses"][1] THEN {Raise(response_dict, "KeyError")} ELSE
    LET id == Some(response_dict.val["licenses"][1]["id"])
    IN {Ret(Assign(response_dict, "_license_id", id), id)})

\* an exchange that skips the authenticate GET
license_id_unauthenticated(w, ans) ==
    IF TruthyStr(w.self._license_id) THEN {Ret(w, w.self._license_id)}
    ELSE Then(license_url(w, ans), LAMBDA lu :
         Then(requests_send(lu, "GET", "license", lu.val[1], None, ans.lic), LAMBDA response :
         read_license_id(response)))

license_id(w, ans) ==
    IF TruthyStr(w.self._license_id) THEN {Ret(w, w.self._license_id)}
    ELSE Then(authenticate_url(w), LAMBDA au :
         Then(requests_send(au, "GET", "authenticate", au.val[1], None, ans.auth), LAMBDA auth :
         Then(license_url(auth, ans), LAMBDA lu :
         Then(requests_send(lu, "GET", "license", lu.val[1], None, ans.lic), LAMBDA response :
         read_license_id(response)))))

PlaylistUrlHead ==
    <<"https:", "/", "/", "api.findawayworld.com", "/", "v", "4", "/", "audiobooks", "/">>

playlist_url(w, ans) ==
    IF TruthyStr(w.self._playlist_url) THEN {Ret(w, w.self._playlist_url)}
    ELSE Then(book_id(w, ans), LAMBDA b :
         LET url == Some(PlaylistUrlHead \o Str(b.val) \o <<"/", "playlists">>)
         IN {Ret(Assign(b, "_playlist_url", url), url)})

\* bool(self.cookies): true of any cookie bag
premium_cookies_of_bag(w, ans) ==
    Then(author_id(w, ans), LAMBDA a : {Ret(a, TRUE)})

\* bool(self.author_id)
premium_cookies(w, ans) ==
    Then(author_id(w, ans), LAMBDA a : {Ret(a, TruthyStr(a.val))})

title(w) ==
    IF TruthyStr(w.self._title) THEN {Ret(w, w.self._title)}
    ELSE LET d == [w EXCEPT !.ran.title = @ + 1]
             splits == list_remove(split(w.self.audiobook_url, "/"), <<>>)
         IN IF splits.err # "ok" THEN {Raise(d, splits.err)} ELSE
            IF Len(splits.val) = 0 THEN {Raise(d, "IndexError")} ELSE
            LET t == Some(replace(splits.val[Len(splits.val)], "-", " "))
            IN {Ret(Assign(d, "_title", t), t)}

(***************************************************************************)
(* Track and Playlist                                                      *)
(***************************************************************************)
TrackKeys == {"url", "part_number", "chapter_number"}

\* Track(track): KeyError when the dict lacks one of the three keys
Track(track) ==
    IF ~(TrackKeys \subseteq DOMAIN track) THEN [err |-> "KeyError", val |-> None]
    ELSE [err |-> "ok",
          val |-> Some([url |-> track["url"],
                        part_number |-> track["part_number"],
                        chapter_number |-> track["chapter_number"],
                        _track |-> track])]

\* a Playlist whose tracks are in the reverse of the order of the entries
PlaylistReversed(name, playlist) ==
    IF "playlist" \notin DOMAIN playlist THEN [err |-> "KeyError", val |-> None]
    ELSE LET entries == playlist["playlist"]
         IN IF \E i \in 1..Len(entries) : Track(entries[i]).err # "ok"
            THEN [err |-> "KeyError", val |-> None]
            ELSE [err |-> "ok",
                  val |-> Some([title |-> name,
                                tracks |-> [i \in 1..Len(entries) |->
                                               Track(entries[Len(entries) + 1 - i]).val[1]],
                                _playlist |-> playlist,
                                download_paths |-> <<>>])]

\* Playlist(title, playlist): one Track per entry of playlist["playlist"], in order
Playlist(name, playlist) ==
    IF "playlist" \notin DOMAIN playlist THEN [err |-> "KeyError", val |-> None]
    ELSE LET entries == playlist["playlist"]
         IN IF \E i \in 1..Len(entries) : Track(entries[i]).err # "ok"
            THEN [err |-> "KeyError", val |-> None]
            ELSE [err |-> "ok",
                  val |-> Some([title |-> name,
                                tracks |-> [i \in 1..Len(entries) |-> Track(entries[i]).val[1]],
                                _playlist |-> playlist,
                                download_paths |-> <<>>])]

\* a path named after the part instead of the chapter
PathOfPart(name, track) == name \o <<"_">> \o track.part_number \o <<".mp3">>

\* "{0}_{1}.mp3".format(title, track.chapter_number)
PathOf(name, track) == name \o <<"_">> \o track.chapter_number \o <<".mp3">>

Preview == <<"preview">>

LicenseBodyHead == <<"{\"license_id\":\"">>

LicenseBodyTail == <<"\"}">>

\* the premium branch of make_playlist
premium_playlist(w, ans) ==
    Then(license_id(w, ans), LAMBDA lid :
    LET data == LicenseBodyHead \o lid.val[1] \o LicenseBodyTail
    IN Then(playlist_url(lid, ans), LAMBDA pu :
       Then(requests_send(pu, "POST", "playlist", pu.val[1], Some(data), ans.post), LAMBDA response :
       json_loads(response, response.val))))

\* the other branch of make_playlist
preview_playlist(w, ans) ==
    Then(preview_url(w, ans), LAMBDA pv :
    {Ret(pv, [playlist |-> <<[url |-> pv.val[1],
                              part_number |-> Preview,
                              chapter_number |-> Preview]>>,
              expires |-> None,
              playlist_token |-> None])})

\* a build that answers a failed premium branch with the preview playlist
make_playlist_fallback(w, ans) ==
    Then(premium_cookies(w, ans), LAMBDA premium :
    IF premium.val
    THEN UNION {IF r.err = "ok" THEN {r} ELSE preview_playlist(r, ans) :
                r \in premium_playlist(premium, ans)}
    ELSE preview_playlist(premium, ans))

make_playlist(w, ans) ==
    Then(premium_cookies(w, ans), LAMBDA premium :
    IF premium.val
    THEN premium_playlist(premium, ans)
    ELSE preview_playlist(premium, ans))

playlist(w, ans) ==
    IF TruthyObj(w.self._playlist) THEN {Ret(w, w.self._playlist)}
    ELSE Then(title(w), LAMBDA t :
         Then(make_playlist(t, ans), LAMBDA mp :
         LET built == [mp EXCEPT !.ran.playlist = @ + 1]
             pl == Playlist(replace(t.val[1], " ", "_"), mp.val)
         IN IF pl.err # "ok" THEN {Raise(built, pl.err)}
            ELSE {Ret(Assign(built, "_playlist", pl.val), pl.val)}))

(***************************************************************************)
(* The state machine.  Under Spec a caller builds one session and reads    *)
(* its properties and calls make_playlist() in any order, one step each.   *)
(* Under SpecDownload a caller downloads the playlist of a session, a step *)
(* per transfer started and per transfer ended.                            *)
(***************************************************************************)
NoOutcome == [op |-> "none", err |-> "ok", arg |-> None]

\* the last call returned normally
Returned == [op |-> "returned", err |-> "ok", arg |-> None]

Idle == [pc |-> "idle", i |-> 0, calls |-> 0, start |-> <<>>, path |-> <<>>]

Init ==
    /\ self = None
    /\ net = <<>>
    /\ ran = [title |-> 0, playlist |-> 0]
    /\ outcome = NoOutcome
    /\ dl = Idle
    /\ events = <<>>

World == [self |-> self[1], net |-> net, ran |-> ran]

Effects == Len(net) + ran.title + ran.playlist

\* the caller may start another session handler
CanCall == self # None /\ dl.pc = "idle" /\ Effects < MaxEffects

\* a session handler ended with the result r; outcome keeps the exception
\* the last call raised (and the URL a failed construction was given)
Returns(r) ==
    /\ self' = Some(r.self)
    /\ net' = r.net
    /\ ran' = r.ran
    /\ outcome' = IF r.err = "ok" THEN Returned ELSE [op |-> "session", err |-> r.err, arg |-> None]
    /\ UNCHANGED <<dl, events>>

Construct ==
    /\ self = None
    /\ \E url \in ContentURLs :
         /\ self' = init(url).val
         /\ outcome' = IF init(url).err = "ok" THEN Returned
                       ELSE [op |-> "__init__", err |-> init(url).err, arg |-> url]
    /\ UNCHANGED <<net, ran, dl, events>>

GetAudiobookKeys == CanCall /\ \E r \in audiobook_keys(World, Network) : Returns(r)

GetPreviewUrl == CanCall /\ \E r \in preview_url(World, Network) : Returns(r)

GetBookId == CanCall /\ \E r \in book_id(World, Network) : Returns(r)

GetAuthorId == CanCall /\ \E r \in author_id(World, Network) : Returns(r)

GetLicenseUrl == CanCall /\ \E r \in license_url(World, Network) : Returns(r)

GetLicenseId == CanCall /\ \E r \in license_id(World, Network) : Returns(r)

GetPlaylistUrl == CanCall /\ \E r \in playlist_url(World, Network) : Returns(r)

GetAuthenticateUrl == CanCall /\ \E r \in authenticate_url(World) : Returns(r)

GetPremiumCookies == CanCall /\ \E r \in premium_cookies(World, Network) : Returns(r)

GetTitle == CanCall /\ \E r \in title(World) : Returns(r)

GetPlaylist == CanCall /\ \E r \in playlist(World, Network) : Returns(r)

CallMakePlaylist == CanCall /\ \E r \in make_playlist(World, Network) : Returns(r)

(***************************************************************************)
(* Playlist.download() on the session's playlist.                          *)
(***************************************************************************)
ThePlaylist == self[1]._playlist[1]

Event(ev, i, path) == [ev |-> ev, track |-> i, path |-> path]

\* the caller calls download(): the loop is entered
DownloadCall ==
    /\ self # None
    /\ self[1]._playlist # None
    /\ dl.pc = "idle"
    /\ dl.calls < MaxDownloadCalls
    /\ dl' = [pc |-> "loop", i |-> 1, calls |-> dl.calls + 1,
              start |-> ThePlaylist.download_paths, path |-> <<>>]
    /\ events' = Append(events, Event("download", 0, <<>>))
    /\ outcome' = [op |-> "download", err |-> "running", arg |-> None]
    /\ UNCHANGED <<self, net, ran>>

\* a transfer started before its progress line is printed
TrackBeginUnannounced ==
    /\ dl.pc = "loop"
    /\ dl.i <= Len(ThePlaylist.tracks)
    /\ LET path == PathOf(ThePlaylist.title, ThePlaylist.tracks[dl.i])
       IN /\ dl' = [dl EXCEPT !.pc = "transfer", !.path = path]
          /\ events' = events \o <<Event("transfer", dl.i, path), Event("print", dl.i, path)>>
    /\ UNCHANGED <<self, net, ran, outcome>>

\* lines 61-66: the path, the progress line, and the transfer is started
TrackBegin ==
    /\ dl.pc = "loop"
    /\ dl.i <= Len(ThePlaylist.tracks)
    /\ LET path == PathOf(ThePlaylist.title, ThePlaylist.tracks[dl.i])
       IN /\ dl' = [dl EXCEPT !.pc = "transfer", !.path = path]
          /\ events' = events \o <<Event("print", dl.i, path), Event("transfer", dl.i, path)>>
    /\ UNCHANGED <<self, net, ran, outcome>>

\* a completed transfer whose path is appended twice
TransferDoneTwice ==
    /\ dl.pc = "transfer"
    /\ self' = [self EXCEPT ![1]._playlist[1].download_paths = Append(Append(@, dl.path), dl.path)]
    /\ events' = events \o <<Event("complete", dl.i, dl.path), Event("append", dl.i, dl.path)>>
    /\ dl' = [dl EXCEPT !.pc = "loop", !.i = @ + 1]
    /\ UNCHANGED <<net, ran, outcome>>

\* track.download(path) returns: line 67, and on to the next track
TransferDone ==
    /\ dl.pc = "transfer"
    /\ self' = [self EXCEPT ![1]._playlist[1].download_paths = Append(@, dl.path)]
    /\ events' = events \o <<Event("complete", dl.i, dl.path), Event("append", dl.i, dl.path)>>
    /\ dl' = [dl EXCEPT !.pc = "loop", !.i = @ + 1]
    /\ UNCHANGED <<net, ran, outcome>>

\* the path appended before the transfer: a failed transfer leaves it recorded
TransferFailRecorded ==
    /\ dl.pc = "transfer"
    /\ self' = [self EXCEPT ![1]._playlist[1].download_paths = Append(@, dl.path)]
    /\ events' = Append(events, Event("fail", dl.i, dl.path))
    /\ dl' = [dl EXCEPT !.pc = "idle"]
    /\ outcome' = [op |-> "download", err |-> "TransportError", arg |-> None]
    /\ UNCHANGED <<net, ran>>

\* track.download(path) raises: the exception leaves download()
TransferFail ==
    /\ dl.pc = "transfer"
    /\ events' = Append(events, Event("fail", dl.i, dl.path))
    /\ dl' = [dl EXCEPT !.pc = "idle"]
    /\ outcome' = [op |-> "download", err |-> "TransportError", arg |-> None]
    /\ UNCHANGED <<self, net, ran>>

\* the loop is over: download() returns
DownloadReturn ==
    /\ dl.pc = "loop"
    /\ dl.i > Len(ThePlaylist.tracks)
    /\ dl' = [dl EXCEPT !.pc = "idle"]
    /\ outcome' = Returned
    /\ UNCHANGED <<self, net, ran, events>>

\* the caller of a session: construction, property accesses, make_playlist()
Next ==
    \/ Construct
    \/ GetAudiobookKeys
    \/ GetPreviewUrl
    \/ GetBookId
    \/ GetAuthorId
    \/ GetLicenseUrl
    \/ GetLicenseId
    \/ GetPlaylistUrl
    \/ GetAuthenticateUrl
    \/ GetPremiumCookies
    \/ GetTitle
    \/ GetPlaylist
    \/ CallMakePlaylist

Spec == Init /\ [][Next]_vars

\* the caller who only builds the playlist: construction, then license_id,
\* playlist and make_playlist() in any order, any number of times
BuildNext ==
    \/ Construct
    \/ GetLicenseId
    \/ GetPlaylist
    \/ CallMakePlaylist

SpecBuild == Init /\ [][BuildNext]_vars

\* the state after ScribdAudioBook(url).playlist returned a playlist
DownloadInit ==
    \E url \in ContentURLs :
        /\ init(url).err = "ok"
        /\ \E r \in playlist([self |-> init(url).val[1], net |-> <<>>,
                              ran |-> [title |-> 0, playlist |-> 0]], DownloadNetwork) :
             /\ r.err = "ok"
             /\ self = Some(r.self)
             /\ net = r.net
             /\ ran = r.ran
             /\ outcome = Returned
             /\ dl = Idle
             /\ events = <<>>

\* the caller of session.playlist.download()
DownloadNext ==
    \/ DownloadCall
    \/ TrackBegin
    \/ TransferDone
    \/ TransferFail
    \/ DownloadReturn

SpecDownload == DownloadInit /\ [][DownloadNext]_vars

(***************************************************************************)
(* Playlist.download(): claims C1 and C2, checked under SpecDownload.      *)
(***************************************************************************)
\* the events of the download() call last entered
RunEvents ==
    LET calls == {i \in 1..Len(events) : events[i].ev = "download"}
        last == CHOOSE i \in calls : \A j \in calls : j <= i
    IN SubSeq(events, last + 1, Len(events))

\* download() was entered with an empty download_paths and a transfer failed
AbortedFromEmpty ==
    /\ outcome = [op |-> "download", err |-> "TransportError", arg |-> None]
    /\ dl.start = <<>>

\* the destination of a track, as the claims state it
Destination(pl, i) == pl.title \o <<"_">> \o pl.tracks[i].chapter_number \o <<".mp3">>

\* C1: when the transfer of track k fails in a download() entered with an
\* empty download_paths, download() is over, no later track was attempted and
\* download_paths holds the paths of the tracks before k, in playlist order
\* (dl.i is k counted from one).
C1_AbortKeepsEarlierPaths ==
    AbortedFromEmpty =>
        /\ dl.pc = "idle"
        /\ \A j \in 1..Len(RunEvents) : RunEvents[j].track <= dl.i
        /\ RunEvents[Len(RunEvents)] = Event("fail", dl.i, Destination(ThePlaylist, dl.i))
        /\ ThePlaylist.download_paths = [j \in 1..(dl.i - 1) |-> Destination(ThePlaylist, j)]

\* C1 happens: the second of three tracks failed, after the first was recorded
C1_Witness ==
    /\ AbortedFromEmpty
    /\ dl.i = 2
    /\ Len(ThePlaylist.tracks) = 3
    /\ Len(ThePlaylist.download_paths) = 1

\* the first download() of a playlist returned
FirstRunReturned ==
    /\ outcome = Returned
    /\ dl.calls = 1
    /\ dl.pc = "idle"

\* C2: when every transfer succeeds, the first download() of a playlist ends
\* with one path per track, the i-th being "{title}_{chapter_number}.mp3" of
\* the i-th track.
C2_OnePathPerTrack ==
    FirstRunReturned =>
        /\ Len(ThePlaylist.download_paths) = Len(ThePlaylist.tracks)
        /\ \A i \in 1..Len(ThePlaylist.tracks) :
             ThePlaylist.download_paths[i] = Destination(ThePlaylist, i)

\* C2 happens: three tracks, not all of one chapter, were downloaded
C2_Witness ==
    /\ FirstRunReturned
    /\ Len(ThePlaylist.tracks) = 3
    /\ ThePlaylist.tracks[1].chapter_number # ThePlaylist.tracks[2].chapter_number
    /\ ThePlaylist.tracks[1].part_number = ThePlaylist.tracks[2].part_number

(***************************************************************************)
(* The session: claims C3 to C10, checked under Spec.                      *)
(***************************************************************************)
HasSession == self # None

\* the content page was scraped and its last script held no author id
ScrapedAuthorNone ==
    /\ HasSession
    /\ self[1]._audiobook_keys # None
    /\ self[1]._audiobook_keys[1].author_id = None

\* the content page was scraped and its last script held an author id
PremiumIn(s) ==
    /\ s._audiobook_keys # None
    /\ TruthyStr(s._audiobook_keys[1].author_id)

\* the requests a handler ending in r issued, in order
Issued(r) == SubSeq(r.net, Len(net) + 1, Len(r.net))

IssuedKind(r, kind) == {i \in 1..Len(Issued(r)) : Issued(r)[i].kind = kind}

\* C3 as claimed: in a session whose scraped author id is None, only the
\* content page is ever requested: no authenticate GET, no license GET and no
\* playlist POST.
C3_NoExchangeWithoutAuthor ==
    ScrapedAuthorNone => \A i \in 1..Len(net) : net[i].kind = "page"

PreviewEntry == [url |-> self[1]._audiobook_keys[1].preview_url[1],
                 part_number |-> Preview,
                 chapter_number |-> Preview]

\* C4: once the scraped author id is None, make_playlist() and the playlist
\* property succeed whatever else the session holds, with the one track of
\* the scraped preview URL whose part and chapter are "preview".
C4_PreviewOnly ==
    ScrapedAuthorNone =>
        /\ \A r \in make_playlist(World, Network) :
             /\ r.err = "ok"
             /\ r.val["playlist"] = <<PreviewEntry>>
        /\ \A r \in playlist(World, Network) :
             /\ r.err = "ok"
             /\ Len(r.val[1].tracks) = 1
             /\ r.val[1].tracks[1].url = PreviewEntry.url
             /\ r.val[1].tracks[1].part_number = <<"preview">>
             /\ r.val[1].tracks[1].chapter_number = <<"preview">>
             /\ r.self._playlist = r.val

\* C4 happens: a preview playlist was built in a session that holds a
\* license id
C4_Witness ==
    /\ ScrapedAuthorNone
    /\ self[1]._license_id # None
    /\ self[1]._playlist # None
    /\ Len(self[1]._playlist[1].tracks) = 1
    /\ self[1]._playlist[1].tracks[1].chapter_number = <<"preview">>

CachedFields ==
    {"_audiobook_keys", "_preview_url", "_book_id", "_author_id", "_license_url",
     "_license_id", "_playlist_url", "_authenticate_url", "_title", "_playlist"}

Count(log, kind) == Cardinality({i \in 1..Len(log) : log[i].kind = kind})

\* C5 as claimed: a derived field that was computed, whatever its value, is
\* never assigned again, and the computation behind it never runs again: no
\* second page fetch, license exchange, title derivation or Playlist
\* construction.
C5_ComputedOnce ==
    [][(self # None /\ self' # None) =>
         /\ \A f \in CachedFields : self[1][f] # None => self'[1][f] = self[1][f]
         /\ self[1]._audiobook_keys # None => Count(net', "page") = Count(net, "page")
         /\ self[1]._license_id # None =>
              /\ Count(net', "authenticate") = Count(net, "authenticate")
              /\ Count(net', "license") = Count(net, "license")
         /\ self[1]._title # None => ran'.title = ran.title
         /\ self[1]._playlist # None => ran'.playlist = ran.playlist]_vars

Before(log, i, kind) == \E j \in 1..(i - 1) : log[j].kind = kind

\* the order C6 claims and the code keeps: the page before the license GET,
\* the authenticate GET before the license GET, both GETs before the POST
LicenseOrder(log) ==
    \A i \in 1..Len(log) :
        /\ log[i].kind = "license" => Before(log, i, "page") /\ Before(log, i, "authenticate")
        /\ log[i].kind = "playlist" => Before(log, i, "authenticate") /\ Before(log, i, "license")

\* the page fetch before every authenticate GET
PageBeforeAuthenticate(log) ==
    \A i \in 1..Len(log) : log[i].kind = "authenticate" => Before(log, i, "page")

PageBeforeNewAuthenticate(r) ==
    \A i \in (Len(net) + 1)..Len(r.net) :
        r.net[i].kind = "authenticate" => Before(r.net, i, "page")

\* the network whose playlist answers hold no track: the POST is the last
\* request of a build, whatever its answer
ShortPlaylists == [Network EXCEPT !.post = PlaylistAnswers(0)]

AuthenticateFails == [Network EXCEPT !.auth = {NetFail}]

LicenseFails == [Network EXCEPT !.lic = {NetFail, Answer(BadJson)}]

PlaylistFails == [Network EXCEPT !.post = {NetFail, Answer(BadJson)}]

\* a playlist answer that parses but is not a playlist
PlaylistMisshaped == [Network EXCEPT !.post = {Answer(Json(ErrorDict))}]

\* a premium build that ended in r after issuing a request of this kind
\* raised, cached no playlist and issued the request once
Surfaced(r, kind) ==
    (PremiumIn(r.self) /\ IssuedKind(r, kind) # {}) =>
        /\ r.err # "ok"
        /\ r.self._playlist = self[1]._playlist
        /\ r.ran.playlist = ran.playlist
        /\ Cardinality(IssuedKind(r, kind)) = 1

\* C7: on the premium path, when the authenticate GET, the license GET or the
\* playlist POST fails or answers an unparseable body, the build (the
\* playlist property, make_playlist()) raises: no preview playlist is
\* returned, no playlist is cached and the request is not issued again.  The
\* playlist property raises as well on a playlist answer of another shape.
C7_PremiumFailureSurfaces ==
    HasSession =>
        /\ \A r \in playlist(World, AuthenticateFails) : Surfaced(r, "authenticate")
        /\ \A r \in make_playlist(World, AuthenticateFails) : Surfaced(r, "authenticate")
        /\ \A r \in playlist(World, LicenseFails) : Surfaced(r, "license")
        /\ \A r \in make_playlist(World, LicenseFails) : Surfaced(r, "license")
        /\ \A r \in playlist(World, PlaylistFails) : Surfaced(r, "playlist")
        /\ \A r \in make_playlist(World, PlaylistFails) : Surfaced(r, "playlist")
        /\ \A r \in playlist(World, PlaylistMisshaped) :
             (PremiumIn(r.self) /\ IssuedKind(r, "playlist") # {}) =>
                 /\ r.err = "KeyError"
                 /\ r.self._playlist = self[1]._playlist
                 /\ Cardinality(IssuedKind(r, "playlist")) = 1

\* C7 happens: the playlist POST of a premium session failed
C7_Witness ==
    /\ HasSession
    /\ PremiumIn(self[1])
    /\ outcome = [op |-> "session", err |-> "ConnectionError", arg |-> None]
    /\ Len(net) > 0
    /\ net[Len(net)].kind = "playlist"
    /\ self[1]._playlist = None

\* license answers without the "licenses" key, or with an empty list
LicenseMalformed ==
    [Network EXCEPT !.lic = {Answer(Json(ErrorDict)), Answer(Json([licenses |-> <<>>]))}]

\* a build that issued a license GET raised without a playlist POST
NoPostWithoutLicense(r) ==
    IssuedKind(r, "license") # {} =>
        /\ r.err \in {"KeyError", "IndexError"}
        /\ IssuedKind(r, "playlist") = {}
        /\ r.self._license_id = self[1]._license_id

\* C8: a license answer without "licenses", or with an empty list, makes
\* license_id raise: it returns no license id and leaves the cached one as it
\* was, and the build that asked for it issues no playlist POST.
C8_MalformedLicenseRaises ==
    HasSession =>
        /\ \A r \in license_id(World, LicenseMalformed) :
             IssuedKind(r, "license") # {} =>
                 /\ r.err \in {"KeyError", "IndexError"}
                 /\ r.val = None
                 /\ r.self._license_id = self[1]._license_id
        /\ \A r \in playlist(World, LicenseMalformed) : NoPostWithoutLicense(r)
        /\ \A r \in make_playlist(World, LicenseMalformed) : NoPostWithoutLicense(r)

\* C8 happens: a license answer with an empty list ended the last call, and
\* the session holds no license id
C8_Witness ==
    /\ HasSession
    /\ outcome = [op |-> "session", err |-> "IndexError", arg |-> None]
    /\ Len(net) > 0
    /\ net[Len(net)].kind = "license"
    /\ self[1]._license_id = None

\* the URLs of C9: "https://x.com/123456789/My-Great-Book/", and the same
\* without the trailing slash, without the scheme, without both
GreatBookUrls == {UrlSlash, UrlPlain, UrlNoSchemeSlash, UrlNoScheme}

\* C9 as claimed: for each of these URLs the title is "My Great Book" and the
\* file-name stem "My_Great_Book".
C9_TitleOfLastSegment ==
    (HasSession /\ self[1].audiobook_url \in GreatBookUrls) =>
        \A r \in title(World) :
            /\ r.err = "ok"
            /\ r.val = Some(<<"My", " ", "Great", " ", "Book">>)
            /\ replace(r.val[1], " ", "_") = <<"My", "_", "Great", "_", "Book">>

\* where a run of IdLen digits starts in a URL
IdRuns(url) ==
    {i \in 1..(Len(url) - IdLen + 1) : \A j \in i..(i + IdLen - 1) : url[j] \in Digits}

\* C10 as claimed: a URL with exactly one run of 9 digits gives a session
\* whose scribd_id is that run; a URL with none makes the construction fail
\* with IdentifierNotFound, without a session and without a request.
C10_ContentId ==
    /\ HasSession =>
         \A i \in IdRuns(self[1].audiobook_url) :
             IdRuns(self[1].audiobook_url) = {i} =>
                 self[1].scribd_id = SubSeq(self[1].audiobook_url, i, i + IdLen - 1)
    /\ ~HasSession /\ outcome.op = "__init__" =>
         /\ IdRuns(outcome.arg) = {}
         /\ outcome.err = "IdentifierNotFound"
         /\ net = <<>>

(***************************************************************************)
(* The playlist that is built: claims C11 and C16, checked under SpecBuild. *)
(***************************************************************************)
\* the network on which the premium path succeeds with the array l: the page
\* it serves holds an author id in its last script, its license endpoint
\* serves a license and its playlist endpoint answers l
Serving(l) ==
    [page |-> {Answer([div |-> GoodDiv, scripts |-> <<JsFree, JsPremium>>])},
     auth |-> {Answer(None)},
     lic |-> {Answer(Json([licenses |-> <<[id |-> LicenseB], [id |-> LicenseA]>>]))},
     post |-> {Answer(Json(PlaylistDict(l)))}]

\* the arrays of C11: those a session is answered under Spec and every pair
\* of entries, two equal entries and two entries of one chapter among them
ServedArrays == ServerPlaylists(MaxEntries) \cup {<<a, b>> : a \in TrackDicts, b \in TrackDicts}

\* the tracks carry the url, part and chapter of the entries of l, in order
TracksOf(tracks, l) ==
    /\ Len(tracks) = Len(l)
    /\ \A i \in 1..Len(l) :
         /\ tracks[i].url = l[i].url
         /\ tracks[i].part_number = l[i].part_number
         /\ tracks[i].chapter_number = l[i].chapter_number

\* C11: when the playlist property succeeds after a playlist POST that the
\* server answered with the array l, the Playlist it returns and caches has
\* one Track per entry of l, the i-th with the url, part_number and
\* chapter_number of the i-th entry, also when entries of l are equal.
C11_TracksFollowServerOrder ==
    HasSession =>
        \A l \in ServedArrays :
            \A r \in playlist(World, Serving(l)) :
                (r.err = "ok" /\ IssuedKind(r, "playlist") # {}) =>
                    /\ TracksOf(r.val[1].tracks, l)
                    /\ r.self._playlist = r.val

\* C11 happens: the playlist of a premium session was built from the array
\* the server answered to the POST
C11_Witness ==
    /\ HasSession
    /\ PremiumIn(self[1])
    /\ self[1]._playlist # None
    /\ Len(net) > 0
    /\ net[Len(net)].kind = "playlist"
    /\ Len(self[1]._playlist[1].tracks) = MaxEntries
    /\ self[1]._playlist[1].tracks[1].part_number # Preview

\* the last request a handler ending in r issued
LastIssued(r) == Issued(r)[Len(Issued(r))]

\* the handler ending in r raised in the license exchange: at or after the
\* authenticate GET or the license GET, before any playlist POST
FailedExchange(r) ==
    /\ r.err # "ok"
    /\ Issued(r) # <<>>
    /\ LastIssued(r).kind \in {"authenticate", "license"}

\* the handler ending in r raised at or after the playlist POST
FailedPost(r) ==
    /\ r.err # "ok"
    /\ Issued(r) # <<>>
    /\ LastIssued(r).kind = "playlist"

\* the scraped identifiers are cached after r, those the session held before
\* if it held any, and r fetched the page at most once, and not at all then
IdentifiersKept(r) ==
    /\ r.self._audiobook_keys # None
    /\ Cardinality(IssuedKind(r, "page")) <= 1
    /\ self[1]._audiobook_keys # None =>
         /\ r.self._audiobook_keys = self[1]._audiobook_keys
         /\ IssuedKind(r, "page") = {}

\* C16 as claimed: when the license exchange or the playlist POST fails while
\* the playlist property of a session without playlist and license id is
\* computed, the playlist and the license id stay unset and the scraped
\* identifiers stay cached.
C16_FailedBuildLeavesUnset ==
    (HasSession /\ self[1]._playlist = None /\ self[1]._license_id = None) =>
        \A r \in playlist(World, Network) :
            (FailedExchange(r) \/ FailedPost(r)) =>
                /\ r.self._playlist = None
                /\ r.self._license_id = None
                /\ IdentifiersKept(r)

\* C16 amended: when the license exchange or the playlist POST fails while
\* the playlist property is computed, the playlist stays unset and the
\* scraped identifiers stay cached; the license id stays as it was when the
\* exchange failed, and is held when only the POST failed.  In a session that
\* holds the identifiers, the playlist property never fetches the page; on
\* the premium path without a playlist it starts with the POST when a
\* license id is held and with the authenticate GET otherwise.
C16_FailedBuildKeepsUpstream ==
    HasSession =>
        \A r \in playlist(World, Network) :
            /\ (FailedExchange(r) \/ FailedPost(r)) =>
                 /\ self[1]._playlist = None
                 /\ r.self._playlist = None
                 /\ IdentifiersKept(r)
            /\ FailedExchange(r) => r.self._license_id = self[1]._license_id
            /\ FailedPost(r) => r.self._license_id # None
            /\ self[1]._audiobook_keys # None =>
                 /\ IssuedKind(r, "page") = {}
                 /\ r.self._audiobook_keys = self[1]._audiobook_keys
            /\ (PremiumIn(self[1]) /\ self[1]._playlist = None) =>
                 /\ Issued(r) # <<>>
                 /\ Issued(r)[1].kind =
                       IF TruthyStr(self[1]._license_id) THEN "playlist" ELSE "authenticate"

\* C16 happens: the playlist POST of a playlist access failed in a session
\* that fetched the page once and holds the license id it obtained
C16_Witness ==
    /\ HasSession
    /\ outcome = [op |-> "session", err |-> "ConnectionError", arg |-> None]
    /\ ran.title = 1
    /\ Len(net) > 0
    /\ net[Len(net)].kind = "playlist"
    /\ Count(net, "page") = 1
    /\ self[1]._playlist = None
    /\ TruthyStr(self[1]._license_id)
    /\ PremiumIn(self[1])

(***************************************************************************)
(* Playlist.download() called again, and the order of its steps: claims    *)
(* C12 to C15, checked under SpecDownload.                                 *)
(***************************************************************************)
\* the tracks whose transfer completed in some download()
Downloaded ==
    {i \in 1..Len(ThePlaylist.tracks) :
        \E j \in 1..Len(events) : events[j].ev = "complete" /\ events[j].track = i}

\* the members of a set of numbers, in increasing order
Ascending(S) ==
    [j \in 1..Cardinality(S) |-> CHOOSE i \in S : Cardinality({k \in S : k < i}) = j - 1]

\* no two tracks of the playlist have the same destination
DistinctDestinations ==
    \A i, j \in 1..Len(ThePlaylist.tracks) :
        i # j => Destination(ThePlaylist, i) # Destination(ThePlaylist, j)

\* C12 as claimed: whenever a download() of a playlist is over, the first or
\* a later one, returned or aborted, download_paths holds one path per track
\* downloaded so far, in playlist order, and no path twice (stated for the
\* playlists whose tracks have destinations of their own).
C12_DownloadIdempotent ==
    (dl.pc = "idle" /\ dl.calls >= 1 /\ DistinctDestinations) =>
        /\ ThePlaylist.download_paths =
               [j \in 1..Cardinality(Downloaded) |->
                   Destination(ThePlaylist, Ascending(Downloaded)[j])]
        /\ \A i, j \in 1..Len(ThePlaylist.download_paths) :
               i # j => ThePlaylist.download_paths[i] # ThePlaylist.download_paths[j]

\* the events of one kind, in the order they happened
EventsOf(ev) == SelectSeq(events, LAMBDA e : e.ev = ev)

\* C13: across any number of download() calls and failures, download_paths
\* is never longer than the number of transfers started, its j-th path is
\* the path of the j-th transfer that completed, which is the destination of
\* the track transferred, and the path of a transfer that failed or has not
\* completed is not recorded.
C13_PathsOfCompletedTransfers ==
    /\ Len(ThePlaylist.download_paths) <= Len(EventsOf("transfer"))
    /\ Len(ThePlaylist.download_paths) = Len(EventsOf("complete"))
    /\ \A j \in 1..Len(ThePlaylist.download_paths) :
         /\ ThePlaylist.download_paths[j] = EventsOf("complete")[j].path
         /\ ThePlaylist.download_paths[j] =
               Destination(ThePlaylist, EventsOf("complete")[j].track)
    /\ Len(EventsOf("transfer")) =
         Len(EventsOf("complete")) + Len(EventsOf("fail")) + (IF dl.pc = "transfer" THEN 1 ELSE 0)

\* C13 happens: a second download() is under way after a first that was
\* aborted, with a transfer in flight and paths recorded by both
C13_Witness ==
    /\ dl.calls = 2
    /\ dl.pc = "transfer"
    /\ Len(EventsOf("fail")) = 1
    /\ Len(dl.start) >= 1
    /\ Len(ThePlaylist.download_paths) > Len(dl.start)

\* the event before the j-th is this one
Preceded(j, ev, i, path) == j > 1 /\ events[j - 1] = Event(ev, i, path)

\* C14: in download(), the progress line of a track comes first, then the
\* start of its transfer, then the completion of the transfer, then the
\* append of its path, each right after the other; the progress line of a
\* track comes right after the append of the track before it (after the
\* entry into download() for the first track), so that no transfer starts
\* while another is in flight.
C14_StepsInOrder ==
    \A j \in 1..Len(events) :
        LET e == events[j]
        IN /\ e.ev = "print" =>
                /\ e.path = Destination(ThePlaylist, e.track)
                /\ IF e.track = 1 THEN Preceded(j, "download", 0, <<>>)
                   ELSE Preceded(j, "append", e.track - 1, Destination(ThePlaylist, e.track - 1))
           /\ e.ev = "transfer" => Preceded(j, "print", e.track, e.path)
           /\ e.ev = "complete" => Preceded(j, "transfer", e.track, e.path)
           /\ e.ev = "fail" => Preceded(j, "transfer", e.track, e.path)
           /\ e.ev = "append" => Preceded(j, "complete", e.track, e.path)
           /\ e.ev = "download" => (j = 1 \/ events[j - 1].ev \in {"download", "append", "fail"})

\* C14 happens: the third track is being transferred after two were recorded
C14_Witness ==
    /\ dl.pc = "transfer"
    /\ dl.i = 3
    /\ dl.calls = 1
    /\ Len(ThePlaylist.download_paths) = 2

\* C15 as claimed: in one download(), two tracks of the playlist that differ
\* (in url, part_number or chapter_number) are never transferred to the same
\* destination path, and download() does not record a path twice.
C15_OneFilePerTrack ==
    dl.calls >= 1 =>
        \A a, b \in 1..Len(RunEvents) :
            (/\ RunEvents[a].ev \in {"transfer", "append"}
             /\ RunEvents[b].ev = RunEvents[a].ev
             /\ ThePlaylist.tracks[RunEvents[a].track] # ThePlaylist.tracks[RunEvents[b].track])
            => RunEvents[a].path # RunEvents[b].path

====
